---- MODULE Spec2Model ----
(***************************************************************************)
(* Model of scone_tools/extract_tfrecord_info.py: the grid decoder         *)
(* (parse_tfrecord), the axis model (get_wavelength_array, get_mjd_array), *)
(* the feature reducer (extract_summary_statistics), the projection        *)
(* extractors (extract_lightcurve, extract_spectrum) and the batch driver  *)
(* (process_tfrecord).                                                     *)
(*                                                                         *)
(* Numbers.  Payload values are float64 in the program.  The model draws   *)
(* them from small sets of integers and computes every quotient exactly,   *)
(* as a normalised fraction [n, d]; the not-a-number value is the fraction *)
(* with d = 0.  Floating-point rounding, infinities and NaN payload values *)
(* are outside the model.                                                  *)
(***************************************************************************)
EXTENDS Integers, Sequences, FiniteSets, TLC

VARIABLES
    \* ---- process_tfrecord (batch driver) ----
    source,            \* the records of the TFRecord file, in file order
    limit,             \* <<>> is None, <<n>> is the integer n
    full_lightcurves,  \* BOOLEAN argument
    full_spectra,      \* BOOLEAN argument
    pc,                \* position in process_tfrecord
    pos,               \* records pulled from the dataset iterator so far
    count,             \* the loop counter `count`
    summary_data,      \* list of feature rows
    lightcurve_data,   \* [none, rows]: None or a list of light-curve rows
    spectrum_data,     \* [none, rows]: None or a list of spectrum rows
    summary_csv,       \* [written, snids]: the file output_csv
    lc_csv,            \* [written, snids]: the file *_lightcurves.csv
    spec_csv,          \* [written, snids]: the file *_spectra.csv
    result,            \* [returned, rows]: the returned df_summary
    \* ---- one record through the decoder and the extractors ----
    raw_record,        \* the serialized record handed to parse_tfrecord
    fpc,               \* "raw", "parsed", "error", "extracted", "idle"
    data,              \* what parse_tfrecord returned
    info,              \* what extract_summary_statistics returned
    lc_dict,           \* what extract_lightcurve returned
    spec_dict          \* what extract_spectrum returned

driver_vars == <<source, limit, full_lightcurves, full_spectra, pc, pos, count,
                 summary_data, lightcurve_data, spectrum_data,
                 summary_csv, lc_csv, spec_csv, result>>
record_vars == <<raw_record, fpc, data, info, lc_dict, spec_dict>>
vars == <<source, limit, full_lightcurves, full_spectra, pc, pos, count,
          summary_data, lightcurve_data, spectrum_data,
          summary_csv, lc_csv, spec_csv, result,
          raw_record, fpc, data, info, lc_dict, spec_dict>>

(***************************************************************************)
(* Configuration.  The program fixes a 32 x 180 grid; the model keeps the  *)
(* same formulas on a small grid.                                          *)
(***************************************************************************)
NUM_WAVELENGTH_BINS == 3
NUM_MJD_BINS == 3
WAVELENGTH_MIN == 3000
WAVELENGTH_MAX == 10100
MJD_RANGE_START == -50
MJD_RANGE_END == 130
BYTES_PER_FLOAT64 == 8

\* INPUT_SHAPE = (NUM_WAVELENGTH_BINS, NUM_MJD_BINS, 2)
INPUT_SHAPE == <<NUM_WAVELENGTH_BINS, NUM_MJD_BINS, 2>>

\* Longest record source the driver is run on.
MaxRecords == 3

WIdx == 0 .. (NUM_WAVELENGTH_BINS - 1)
TIdx == 0 .. (NUM_MJD_BINS - 1)

(***************************************************************************)
(* Exact fractions.                                                        *)
(***************************************************************************)
Abs(x) == IF x < 0 THEN 0 - x ELSE x

RECURSIVE GCD(_, _)
GCD(a, b) == IF b = 0 THEN a ELSE GCD(b, a % b)

\* The fraction n/d in lowest terms with a positive denominator (d # 0).
Rat(n, d) ==
    LET g == GCD(Abs(n), Abs(d))
        s == IF d < 0 THEN 0 - 1 ELSE 1
    IN  [n |-> (s * n) \div g, d |-> (s * d) \div g]

NaN == [n |-> 0, d |-> 0]
IsNaN(x) == x.d = 0
RatInt(k) == [n |-> k, d |-> 1]
RatAdd(x, y) == Rat(x.n * y.d + y.n * x.d, x.d * y.d)
RatSub(x, y) == Rat(x.n * y.d - y.n * x.d, x.d * y.d)
RatLess(x, y) == x.n * y.d < y.n * x.d
RatLeq(x, y) == x.n * y.d <= y.n * x.d
RatAbs(x) == [n |-> Abs(x.n), d |-> x.d]
RatDivInt(x, k) == Rat(x.n, x.d * k)

(***************************************************************************)
(* Generic array helpers (numpy semantics on 0-based index ranges).        *)
(***************************************************************************)
\* np.sum(f[lo:hi]) for a vector f indexed from 0
RECURSIVE SumSlice(_, _, _)
SumSlice(f, lo, hi) == IF lo >= hi THEN 0 ELSE f[lo] + SumSlice(f, lo + 1, hi)

\* np.argmax / np.argmin of a vector of n entries: the first index of the extreme
ArgMax(f, n) ==
    CHOOSE i \in 0 .. (n - 1) :
        /\ \A j \in 0 .. (n - 1) : f[j] <= f[i]
        /\ \A j \in 0 .. (i - 1) : f[j] < f[i]

RatArgMin(f, n) ==
    CHOOSE i \in 0 .. (n - 1) :
        /\ \A j \in 0 .. (n - 1) : RatLeq(f[i], f[j])
        /\ \A j \in 0 .. (i - 1) : RatLess(f[i], f[j])

\* sum of a sequence of fractions
RECURSIVE RatSumSeq(_)
RatSumSeq(s) == IF s = <<>> THEN RatInt(0) ELSE RatAdd(Head(s), RatSumSeq(Tail(s)))

\* a sequence of fractions in ascending order (np.median sorts its input)
RECURSIVE RatSort(_)
RatSort(s) ==
    IF s = <<>> THEN <<>>
    ELSE LET k == CHOOSE i \in 1 .. Len(s) :
                     /\ \A j \in 1 .. Len(s) : RatLeq(s[i], s[j])
                     /\ \A j \in 1 .. (i - 1) : RatLess(s[i], s[j])
             rest == [j \in 1 .. (Len(s) - 1) |-> IF j < k THEN s[j] ELSE s[j + 1]]
         IN  <<s[k]>> \o RatSort(rest)

\* np.mean and np.median of a non-empty sequence of fractions
RatMean(s) == RatDivInt(RatSumSeq(s), Len(s))
RatMedian(s) ==
    LET srt == RatSort(s)
        n == Len(s)
    IN  IF n % 2 = 1 THEN srt[(n \div 2) + 1]
        ELSE RatDivInt(RatAdd(srt[n \div 2], srt[(n \div 2) + 1]), 2)

(***************************************************************************)
(* Grid decoder: parse_tfrecord.                                           *)
(*                                                                         *)
(* A serialized record is [has, id, label, z, z_err, image_raw]: `has` is  *)
(* the set of features present in the example and image_raw is the byte    *)
(* string, held as the float64 values it encodes (vals) followed by        *)
(* `extra` trailing bytes (0..7) that do not make up a whole float64.      *)
(***************************************************************************)
FeatureNames == {"label", "image_raw", "id", "z", "z_err"}

ByteLen(image_raw) == BYTES_PER_FLOAT64 * Len(image_raw.vals) + image_raw.extra

\* tf.io.parse_single_example with five FixedLenFeature entries and no
\* default: a feature that is absent fails the parse.
parse_single_example(raw) ==
    IF FeatureNames \subseteq raw.has
    THEN [ok |-> TRUE, example |-> raw]
    ELSE [ok |-> FALSE, example |-> raw]

\* tf.io.decode_raw(bytes, tf.float64): the byte length must be a multiple of 8
decode_raw(image_raw) ==
    IF ByteLen(image_raw) % BYTES_PER_FLOAT64 = 0
    THEN [ok |-> TRUE, vals |-> image_raw.vals]
    ELSE [ok |-> FALSE, vals |-> <<>>]

\* Position of element [w, t, c] of a row-major (W, T, 2) tensor in its flat
\* buffer (0-based).
FlatIndexPlanar(w, t, c) == (c * INPUT_SHAPE[1] + w) * INPUT_SHAPE[2] + t
FlatIndex(w, t, c) == (w * INPUT_SHAPE[2] + t) * INPUT_SHAPE[3] + c

\* tf.reshape(vals, INPUT_SHAPE): the element count must equal W*T*2
reshape_pad(vals) ==
    [ok |-> TRUE,
     image |-> [w \in WIdx |-> [t \in TIdx |-> [c \in 0 .. 1 |->
                   IF FlatIndex(w, t, c) + 1 <= Len(vals)
                   THEN vals[FlatIndex(w, t, c) + 1] ELSE 0]]]]
reshape(vals) ==
    IF Len(vals) = INPUT_SHAPE[1] * INPUT_SHAPE[2] * INPUT_SHAPE[3]
    THEN [ok |-> TRUE,
          image |-> [w \in WIdx |-> [t \in TIdx |-> [c \in 0 .. 1 |->
                        vals[FlatIndex(w, t, c) + 1]]]]]
    ELSE [ok |-> FALSE, image |-> <<>>]

NoGrid == <<>>
ParseError == [ok |-> FALSE, id |-> 0, label |-> 0, z |-> 0, z_err |-> 0,
               flux |-> NoGrid, flux_err |-> NoGrid]

\* parse_tfrecord(raw_record): the decoded record, or ok = FALSE when
\* parse_single_example, decode_raw or reshape raised.
parse_tfrecord(raw) ==
    LET ex == parse_single_example(raw)
    IN  IF ~ex.ok THEN ParseError
        ELSE LET dec == decode_raw(ex.example.image_raw)
             IN  IF ~dec.ok THEN ParseError
                 ELSE LET img == reshape(dec.vals)
                      IN  IF ~img.ok THEN ParseError
                          ELSE [ok |-> TRUE,
                                id |-> ex.example.id,
                                label |-> ex.example.label,
                                z |-> ex.example.z,
                                z_err |-> ex.example.z_err,
                                flux |-> [w \in WIdx |-> [t \in TIdx |-> img.image[w][t][0]]],
                                flux_err |-> [w \in WIdx |-> [t \in TIdx |-> img.image[w][t][1]]]]

(***************************************************************************)
(* Axis model.                                                             *)
(***************************************************************************)
\* np.linspace(start, stop, num)[i]
linspace(start, stop, num, i) ==
    IF num = 1 THEN RatInt(start)
    ELSE RatAdd(RatInt(start), Rat(i * (stop - start), num - 1))

get_wavelength_array ==
    [w \in WIdx |-> linspace(WAVELENGTH_MIN, WAVELENGTH_MAX, NUM_WAVELENGTH_BINS, w)]

get_mjd_array ==
    [t \in TIdx |-> linspace(MJD_RANGE_START, MJD_RANGE_END, NUM_MJD_BINS, t)]

(***************************************************************************)
(* Feature reducer: extract_summary_statistics.                            *)
(* A grid is a function [WIdx -> [TIdx -> Int]].                           *)
(***************************************************************************)
GRID_SIZE == NUM_WAVELENGTH_BINS * NUM_MJD_BINS

\* the grid in row-major (C) order, 0-based: what np.argmax and boolean
\* masks iterate over
Flat(grid) == [k \in 0 .. (GRID_SIZE - 1) |-> grid[k \div NUM_MJD_BINS][k % NUM_MJD_BINS]]
FlatSeq(grid) == [k \in 1 .. GRID_SIZE |-> grid[(k - 1) \div NUM_MJD_BINS][(k - 1) % NUM_MJD_BINS]]

\* np.unravel_index(k, flux.shape)
unravel_index(k) == <<k \div NUM_MJD_BINS, k % NUM_MJD_BINS>>

\* np.sum(flux, axis=0): the light curve
light_curve_of(flux) ==
    [t \in TIdx |-> SumSlice([w \in WIdx |-> flux[w][t]], 0, NUM_WAVELENGTH_BINS)]

\* peak_idx = np.argmax(light_curve)
peak_idx_abs(light_curve) ==
    ArgMax([t \in TIdx |-> Abs(light_curve[t])], NUM_MJD_BINS)
peak_idx_of(light_curve) == ArgMax(light_curve, NUM_MJD_BINS)

\* np.sum(light_curve[:peak_idx]) if peak_idx > 0 else 0
flux_before_peak_of(light_curve, peak_idx) ==
    IF peak_idx > 0 THEN SumSlice(light_curve, 0, peak_idx) ELSE 0

\* np.sum(light_curve[peak_idx:]) if peak_idx < len(light_curve) else 0
flux_after_peak_exclusive(light_curve, peak_idx) ==
    IF peak_idx < NUM_MJD_BINS THEN SumSlice(light_curve, peak_idx + 1, NUM_MJD_BINS) ELSE 0
flux_after_peak_of(light_curve, peak_idx) ==
    IF peak_idx < NUM_MJD_BINS THEN SumSlice(light_curve, peak_idx, NUM_MJD_BINS) ELSE 0

\* above_half = light_curve > half_max, as the set of indices where it is True
above_half_geq(light_curve, half_max) ==
    {t \in TIdx : RatLeq(half_max, RatInt(light_curve[t]))}
above_half_of(light_curve, half_max) ==
    {t \in TIdx : RatLess(half_max, RatInt(light_curve[t]))}

SetMin(S) == CHOOSE x \in S : \A y \in S : x <= y
SetMax(S) == CHOOSE x \in S : \A y \in S : y <= x

\* lines 110-119: rise, decline and duration from the half-max window
half_max_times_zero(above, peak_idx, mjds) ==
    IF above # {}
    THEN [rise |-> RatSub(mjds[peak_idx], mjds[SetMin(above)]),
          decline |-> RatSub(mjds[SetMax(above)], mjds[peak_idx]),
          duration |-> RatSub(mjds[SetMax(above)], mjds[SetMin(above)])]
    ELSE [rise |-> RatInt(0), decline |-> RatInt(0), duration |-> RatInt(0)]
half_max_times(above, peak_idx, mjds) ==
    IF above # {}
    THEN [rise |-> RatSub(mjds[peak_idx], mjds[SetMin(above)]),
          decline |-> RatSub(mjds[SetMax(above)], mjds[peak_idx]),
          duration |-> RatSub(mjds[SetMax(above)], mjds[SetMin(above)])]
    ELSE [rise |-> NaN, decline |-> NaN, duration |-> NaN]

\* np.argmin(np.abs(mjd_array - x)): the time bin nearest to x
nearest_mjd_idx(x) ==
    RatArgMin([t \in TIdx |-> RatAbs(RatSub(get_mjd_array[t], RatInt(x)))], NUM_MJD_BINS)

PEAK_WINDOW_START == -10
PEAK_WINDOW_END == 20
peak_start_idx == nearest_mjd_idx(PEAK_WINDOW_START)
peak_end_idx == nearest_mjd_idx(PEAK_WINDOW_END)

\* np.mean(grid[:, s:e], axis=1); the mean of an empty slice is nan
slice_sum(grid, s, e) ==
    [w \in WIdx |-> IF s >= e THEN NaN ELSE RatInt(SumSlice(grid[w], s, e))]
slice_mean(grid, s, e) ==
    [w \in WIdx |-> IF s >= e THEN NaN ELSE Rat(SumSlice(grid[w], s, e), e - s)]

\* np.mean(grid[:, peak_start_idx:peak_end_idx], axis=1)
window_mean(grid) == slice_mean(grid, peak_start_idx, peak_end_idx)

\* np.max / np.argmax of a vector of fractions; a nan entry makes the maximum
\* nan and is what argmax returns first
RatVecMax(f, n) ==
    IF \E i \in 0 .. (n - 1) : IsNaN(f[i]) THEN NaN
    ELSE f[CHOOSE i \in 0 .. (n - 1) : \A j \in 0 .. (n - 1) : RatLeq(f[j], f[i])]
RatVecArgMax(f, n) ==
    IF \E i \in 0 .. (n - 1) : IsNaN(f[i])
    THEN CHOOSE i \in 0 .. (n - 1) : IsNaN(f[i]) /\ \A j \in 0 .. (i - 1) : ~IsNaN(f[j])
    ELSE CHOOSE i \in 0 .. (n - 1) :
             /\ \A j \in 0 .. (n - 1) : RatLeq(f[j], f[i])
             /\ \A j \in 0 .. (i - 1) : RatLess(f[j], f[i])
RatVecMean(f, n) ==
    IF \E i \in 0 .. (n - 1) : IsNaN(f[i]) THEN NaN
    ELSE RatMean([k \in 1 .. n |-> f[k - 1]])

\* colour bands: (wavelengths >= lo) & (wavelengths <= hi)
BLUE_LO == 3000
BLUE_HI == 5000
RED_LO == 6000
RED_HI == 10000
band_mask(wavelengths, lo, hi) ==
    {w \in WIdx : /\ RatLeq(RatInt(lo), wavelengths[w])
                  /\ RatLeq(wavelengths[w], RatInt(hi))}
band_idx(lo, hi) == band_mask(get_wavelength_array, lo, hi)

RECURSIVE SumOver(_, _)
SumOver(f, S) ==
    IF S = {} THEN 0
    ELSE LET x == CHOOSE y \in S : TRUE IN f[x] + SumOver(f, S \ {x})

\* np.sum(light_curve * np.sum(flux[band, :], axis=0))
band_flux(flux, light_curve, band) ==
    SumSlice([t \in TIdx |-> light_curve[t] * SumOver([w \in WIdx |-> flux[w][t]], band)],
             0, NUM_MJD_BINS)

\* lines 132-146: blue_flux, red_flux and color_ratio for the axis held in
\* the local `wavelengths`
color_of_unguarded(flux, light_curve, wavelengths) ==
    LET blue_idx == band_mask(wavelengths, BLUE_LO, BLUE_HI)
        red_idx == band_mask(wavelengths, RED_LO, RED_HI)
        blue_flux == band_flux(flux, light_curve, blue_idx)
        red_flux == band_flux(flux, light_curve, red_idx)
    IN  [blue_flux |-> RatInt(blue_flux),
         red_flux |-> RatInt(red_flux),
         color_ratio |-> IF red_flux # 0 THEN Rat(blue_flux, red_flux) ELSE NaN]
color_of(flux, light_curve, wavelengths) ==
    LET blue_idx == band_mask(wavelengths, BLUE_LO, BLUE_HI)
        red_idx == band_mask(wavelengths, RED_LO, RED_HI)
        blue_flux == band_flux(flux, light_curve, blue_idx)
        red_flux == band_flux(flux, light_curve, red_idx)
    IN  IF blue_idx # {} /\ red_idx # {}
        THEN [blue_flux |-> RatInt(blue_flux),
              red_flux |-> RatInt(red_flux),
              color_ratio |-> IF red_flux > 0 THEN Rat(blue_flux, red_flux) ELSE NaN]
        ELSE [blue_flux |-> NaN, red_flux |-> NaN, color_ratio |-> NaN]

\* snr = np.where(flux_err > 0, flux / flux_err, 0)
snr_fill_flux(flux, flux_err) ==
    [w \in WIdx |-> [t \in TIdx |->
        IF flux_err[w][t] > 0 THEN Rat(flux[w][t], flux_err[w][t]) ELSE RatInt(flux[w][t])]]
snr_of(flux, flux_err) ==
    [w \in WIdx |-> [t \in TIdx |->
        IF flux_err[w][t] > 0 THEN Rat(flux[w][t], flux_err[w][t]) ELSE RatInt(0)]]

\* snr[snr > 0]: the selected entries, in row-major order
snr_nonzero(snr) == SelectSeq(FlatSeq(snr), LAMBDA x : x.n # 0)
snr_positive(snr) == SelectSeq(FlatSeq(snr), LAMBDA x : RatLess(RatInt(0), x))

\* np.mean(snr[snr > 0]) if np.any(snr > 0) else 0, and the median likewise
snr_mean_unguarded(snr) ==
    IF snr_positive(snr) # <<>> THEN RatMean(snr_positive(snr)) ELSE NaN
snr_mean_of(snr) ==
    IF snr_positive(snr) # <<>> THEN RatMean(snr_positive(snr)) ELSE RatInt(0)
snr_median_of(snr) ==
    IF snr_positive(snr) # <<>> THEN RatMedian(snr_positive(snr)) ELSE RatInt(0)

\* np.max(snr)
snr_max_of(snr) == RatVecMax(Flat(snr), GRID_SIZE)

\* non_zero_flux = flux > 0, as the set of flat indices where it is True
non_zero_flux_of(flux) == {k \in 0 .. (GRID_SIZE - 1) : Flat(flux)[k] > 0}
\* np.any(flux > 0, axis=0) and np.any(flux > 0, axis=1)
has_data_per_time_cells(flux) == {c \in WIdx \X TIdx : flux[c[1]][c[2]] > 0}
has_data_per_time_of(flux) == {t \in TIdx : \E w \in WIdx : flux[w][t] > 0}
has_data_per_wavelength_of(flux) == {w \in WIdx : \E t \in TIdx : flux[w][t] > 0}

\* extract_summary_statistics(data): the feature row.  std_flux is held as
\* its square (the variance); every other field is the value the code stores.
extract_summary_statistics(d) ==
    LET flux == d.flux
        flux_err == d.flux_err
        total == SumSlice(Flat(flux), 0, GRID_SIZE)
        flat_peak == ArgMax(Flat(flux), GRID_SIZE)
        peak_flux_idx == unravel_index(flat_peak)
        wavelengths == get_wavelength_array
        mjds == get_mjd_array
        light_curve == light_curve_of(flux)
        lc_argmax == ArgMax(light_curve, NUM_MJD_BINS)
        lc_max == light_curve[lc_argmax]
        peak_idx == peak_idx_of(light_curve)
        half_max == Rat(lc_max, 2)
        above_half == above_half_of(light_curve, half_max)
        times == half_max_times(above_half, peak_idx, mjds)
        peak_spectrum == window_mean(flux)
        color == color_of(flux, light_curve, wavelengths)
        snr == snr_of(flux, flux_err)
        mean_flux == Rat(total, GRID_SIZE)
    IN  [snid |-> d.id,
         label |-> d.label,
         label_name |-> IF d.label = 1 THEN "SNIa" ELSE "Non-Ia",
         redshift |-> d.z,
         redshift_err |-> d.z_err,
         total_flux |-> total,
         max_flux |-> Flat(flux)[flat_peak],
         mean_flux |-> mean_flux,
         median_flux |-> RatMedian([k \in 1 .. GRID_SIZE |-> RatInt(FlatSeq(flux)[k])]),
         std_flux_sq |->
             RatMean([k \in 1 .. GRID_SIZE |->
                         LET dev == RatSub(RatInt(FlatSeq(flux)[k]), mean_flux)
                         IN  Rat(dev.n * dev.n, dev.d * dev.d)]),
         peak_flux_wavelength_idx |-> peak_flux_idx[1],
         peak_flux_mjd_idx |-> peak_flux_idx[2],
         peak_flux_wavelength |-> wavelengths[peak_flux_idx[1]],
         peak_flux_mjd |-> mjds[peak_flux_idx[2]],
         lc_max |-> lc_max,
         lc_mean |-> Rat(SumSlice(light_curve, 0, NUM_MJD_BINS), NUM_MJD_BINS),
         lc_peak_mjd_idx |-> lc_argmax,
         lc_peak_mjd |-> mjds[lc_argmax],
         flux_before_peak |-> flux_before_peak_of(light_curve, peak_idx),
         flux_after_peak |-> flux_after_peak_of(light_curve, peak_idx),
         rise_time_days |-> times.rise,
         decline_time_days |-> times.decline,
         duration_days |-> times.duration,
         spectrum_max |-> RatVecMax(peak_spectrum, NUM_WAVELENGTH_BINS),
         spectrum_mean |-> RatVecMean(peak_spectrum, NUM_WAVELENGTH_BINS),
         spectrum_peak_wavelength_idx |-> RatVecArgMax(peak_spectrum, NUM_WAVELENGTH_BINS),
         spectrum_peak_wavelength |->
             wavelengths[RatVecArgMax(peak_spectrum, NUM_WAVELENGTH_BINS)],
         blue_flux |-> color.blue_flux,
         red_flux |-> color.red_flux,
         color_ratio |-> color.color_ratio,
         snr_mean |-> snr_mean_of(snr),
         snr_median |-> snr_median_of(snr),
         snr_max |-> snr_max_of(snr),
         snr_peak |-> snr[peak_flux_idx[1]][peak_flux_idx[2]],
         num_nonzero_bins |-> Cardinality(non_zero_flux_of(flux)),
         coverage_fraction |-> Rat(Cardinality(non_zero_flux_of(flux)), GRID_SIZE),
         num_epochs_with_data |-> Cardinality(has_data_per_time_of(flux)),
         temporal_coverage_fraction |->
             Rat(Cardinality(has_data_per_time_of(flux)), NUM_MJD_BINS),
         num_wavelengths_with_data |-> Cardinality(has_data_per_wavelength_of(flux)),
         spectral_coverage_fraction |->
             Rat(Cardinality(has_data_per_wavelength_of(flux)), NUM_WAVELENGTH_BINS)]

(***************************************************************************)
(* Projection extractors.  An error column is the square root of a sum or  *)
(* mean of squares; the model keeps the number under the root.             *)
(***************************************************************************)
Squared(grid) == [w \in WIdx |-> [t \in TIdx |-> grid[w][t] * grid[w][t]]]

\* extract_lightcurve(data)
extract_lightcurve_axis1(d) ==
    [snid |-> d.id,
     mjd |-> get_mjd_array,
     flux |-> [t \in TIdx |-> SumSlice(d.flux[t], 0, NUM_MJD_BINS)],
     flux_err_sq |->
         [t \in TIdx |-> SumSlice(Squared(d.flux_err)[t], 0, NUM_MJD_BINS)]]
extract_lightcurve(d) ==
    [snid |-> d.id,
     mjd |-> get_mjd_array,
     flux |-> [t \in TIdx |-> SumSlice([w \in WIdx |-> d.flux[w][t]], 0, NUM_WAVELENGTH_BINS)],
     flux_err_sq |->
         [t \in TIdx |-> SumSlice([w \in WIdx |-> Squared(d.flux_err)[w][t]],
                                  0, NUM_WAVELENGTH_BINS)]]

\* the body of extract_spectrum with the slice bounds s, e it computed
spectrum_over(d, s, e) ==
    [snid |-> d.id,
     wavelength |-> get_wavelength_array,
     flux |-> slice_mean(d.flux, s, e),
     flux_err_sq |-> slice_mean(Squared(d.flux_err), s, e)]

\* extract_spectrum(data)
extract_spectrum(d) == spectrum_over(d, peak_start_idx, peak_end_idx)

(***************************************************************************)
(* Inputs.                                                                 *)
(***************************************************************************)
FluxVals == {-1, 0, 1, 2}
ErrVals == {0, 1, 2}
Cells == WIdx \X TIdx

ConstGrid(b) == [w \in WIdx |-> [t \in TIdx |-> b]]
Spike(grid, cell, v) == [grid EXCEPT ![cell[1]][cell[2]] = v]

\* flux grids: a background of -1, 0 or 1 with up to one spike, and a zero
\* background with two spikes
OneSpikeFluxGrids ==
    {Spike(ConstGrid(b), c, v) : b \in {-1, 0, 1}, c \in Cells, v \in FluxVals}
FluxGrids ==
    {Spike(Spike(ConstGrid(0), c1, v1), c2, v2) :
        c1 \in Cells, c2 \in Cells, v1 \in FluxVals, v2 \in FluxVals}
    \cup OneSpikeFluxGrids

\* flux_err grids: constant, or a background of 0 or 1 with one spike
ConstErrGrids == {ConstGrid(e) : e \in ErrVals}
ErrGrids ==
    ConstErrGrids
    \cup {Spike(ConstGrid(b), c, v) : b \in {0, 1}, c \in Cells, v \in ErrVals}

\* the (flux, flux_err) pairs the extractors are run on
GridPairs == (FluxGrids \X ConstErrGrids) \cup (OneSpikeFluxGrids \X ErrGrids)

\* The byte string that holds a flux and a flux_err grid: 2*W*T float64
\* values, the pair (flux, flux_err) of one time bin after the other, one
\* wavelength row after the other.
Encode(flux, flux_err) ==
    [k \in 1 .. (2 * GRID_SIZE) |->
        LET cell == (k - 1) \div 2
            w == cell \div NUM_MJD_BINS
            t == cell % NUM_MJD_BINS
        IN  IF (k - 1) % 2 = 0 THEN flux[w][t] ELSE flux_err[w][t]]

Bytes(vals, extra) == [vals |-> vals, extra |-> extra]

Record(id, label, image_raw) ==
    [has |-> FeatureNames, id |-> id, label |-> label, z |-> 0, z_err |-> 0,
     image_raw |-> image_raw]

\* well-formed records
GoodRecords ==
    {Record(1, 1, Bytes(Encode(g[1], g[2]), 0)) : g \in GridPairs}

\* malformed records: a payload one value short, empty, one value long,
\* with four stray bytes, or an example that lacks a feature
ShortVals(vals) == SubSeq(vals, 1, Len(vals) - 1)
BadPayloadRecords ==
    {Record(1, 1, Bytes(ShortVals(Encode(f, ConstGrid(1))), 0)) : f \in OneSpikeFluxGrids}
    \cup {Record(1, 1, Bytes(Encode(f, ConstGrid(1)) \o <<v>>, 0)) :
             f \in OneSpikeFluxGrids, v \in {0, 2}}
    \cup {Record(1, 1, Bytes(<<>>, 0))}
    \cup {Record(1, 1, Bytes(Encode(ConstGrid(1), ConstGrid(1)), x)) : x \in {4, 7}}
    \cup {Record(1, 1, Bytes(ShortVals(Encode(ConstGrid(1), ConstGrid(1))), 4))}
MissingFeatureRecords ==
    {[Record(1, 1, Bytes(Encode(ConstGrid(1), ConstGrid(1)), 0))
         EXCEPT !.has = FeatureNames \ {f}] : f \in FeatureNames}

FnRecords == GoodRecords \cup BadPayloadRecords \cup MissingFeatureRecords

\* the records a driver source is made of: two well-formed ones and two
\* malformed ones, told apart by their id
GridA == Spike(Spike(ConstGrid(0), <<0, 0>>, 1), <<1, 1>>, 2)
GridB == Spike(ConstGrid(1), <<0, 1>>, -1)
DriverPool ==
    {Record(1, 1, Bytes(Encode(GridA, ConstGrid(1)), 0)),
     Record(2, 0, Bytes(Encode(GridB, ConstGrid(0)), 0)),
     Record(3, 1, Bytes(ShortVals(Encode(GridA, ConstGrid(1))), 0)),
     [Record(4, 0, Bytes(Encode(GridB, ConstGrid(1)), 0)) EXCEPT !.has = FeatureNames \ {"z"}]}

Sources == UNION {[1 .. n -> DriverPool] : n \in 0 .. MaxRecords}
Limits == {<<>>} \cup {<<n>> : n \in -1 .. MaxRecords}

(***************************************************************************)
(* One record through the decoder and the extractors.                      *)
(***************************************************************************)
NoRow == <<>>
NoRecord == [has |-> {}, id |-> 0, label |-> 0, z |-> 0, z_err |-> 0,
             image_raw |-> Bytes(<<>>, 0)]
None == [none |-> TRUE, rows |-> <<>>]
List(rows) == [none |-> FALSE, rows |-> rows]
NoFile == [written |-> FALSE, snids |-> <<>>]
NotReturned == [returned |-> FALSE, rows |-> <<>>]

RecordIdle ==
    /\ raw_record = NoRecord
    /\ fpc = "idle"
    /\ data = ParseError
    /\ info = NoRow
    /\ lc_dict = NoRow
    /\ spec_dict = NoRow

DriverIdle ==
    /\ source = <<>>
    /\ limit = <<>>
    /\ full_lightcurves = FALSE
    /\ full_spectra = FALSE
    /\ pc = "idle"
    /\ pos = 0
    /\ count = 0
    /\ summary_data = <<>>
    /\ lightcurve_data = None
    /\ spectrum_data = None
    /\ summary_csv = NoFile
    /\ lc_csv = NoFile
    /\ spec_csv = NoFile
    /\ result = NotReturned

InitFn ==
    /\ DriverIdle
    /\ raw_record \in FnRecords
    /\ fpc = "raw"
    /\ data = ParseError
    /\ info = NoRow
    /\ lc_dict = NoRow
    /\ spec_dict = NoRow

\* data = parse_tfrecord(raw_record)
Parse ==
    /\ fpc = "raw"
    /\ data' = parse_tfrecord(raw_record)
    /\ fpc' = IF data'.ok THEN "parsed" ELSE "error"
    /\ UNCHANGED <<raw_record, info, lc_dict, spec_dict>>
    /\ UNCHANGED driver_vars

\* the three extractors applied to the decoded record
Extract ==
    /\ fpc = "parsed"
    /\ info' = extract_summary_statistics(data)
    /\ lc_dict' = extract_lightcurve(data)
    /\ spec_dict' = extract_spectrum(data)
    /\ fpc' = "extracted"
    /\ UNCHANGED <<raw_record, data>>
    /\ UNCHANGED driver_vars

NextFn == Parse \/ Extract

SpecFn == InitFn /\ [][NextFn]_vars

(***************************************************************************)
(* Batch driver: process_tfrecord.                                         *)
(***************************************************************************)
Min(a, b) == IF a < b THEN a ELSE b

\* lines 235-238: TFRecordDataset(path), then .take(limit) when limit is
\* truthy (neither None nor 0); take(n) with n < 0 keeps every record
take_all(src, lim) == src
take_not_none(src, lim) ==
    IF lim # <<>>
    THEN IF lim[1] < 0 THEN src ELSE SubSeq(src, 1, Min(lim[1], Len(src)))
    ELSE src
take(src, lim) ==
    IF lim # <<>> /\ lim[1] # 0
    THEN IF lim[1] < 0 THEN src ELSE SubSeq(src, 1, Min(lim[1], Len(src)))
    ELSE src

dataset == take(source, limit)

Init ==
    /\ RecordIdle
    /\ source \in Sources
    /\ limit \in Limits
    /\ full_lightcurves \in BOOLEAN
    /\ full_spectra \in BOOLEAN
    /\ pc = "loop"
    /\ pos = 0
    /\ count = 0
    /\ summary_data = <<>>
    /\ lightcurve_data = IF full_lightcurves THEN List(<<>>) ELSE None
    /\ spectrum_data = IF full_spectra THEN List(<<>>) ELSE None
    /\ summary_csv = NoFile
    /\ lc_csv = NoFile
    /\ spec_csv = NoFile
    /\ result = NotReturned

\* `if flag: lst.append(row)` (lines 253-258)
append_always(flag, lst, row) == List(lst.rows \o <<row>>)
append_if(flag, lst, row) == IF flag THEN List(lst.rows \o <<row>>) ELSE lst

\* the loop body on a record that decodes (lines 247-260)
IterateOk(d) ==
    /\ summary_data' = Append(summary_data, extract_summary_statistics(d))
    /\ lightcurve_data' = append_if(full_lightcurves, lightcurve_data, extract_lightcurve(d))
    /\ spectrum_data' = append_if(full_spectra, spectrum_data, extract_spectrum(d))
    /\ count' = count + 1
    /\ pc' = "loop"

\* parse_tfrecord raised: nothing catches it, process_tfrecord is left
IterateSkip ==
    /\ pc' = "loop"
    /\ UNCHANGED <<summary_data, lightcurve_data, spectrum_data, count>>
IterateRaise ==
    /\ pc' = "raised"
    /\ UNCHANGED <<summary_data, lightcurve_data, spectrum_data, count>>

\* one iteration of `for raw_record in dataset` (lines 246-262)
Iterate ==
    /\ pc = "loop"
    /\ pos < Len(dataset)
    /\ pos' = pos + 1
    /\ LET d == parse_tfrecord(dataset[pos + 1])
       IN  IF d.ok THEN IterateOk(d) ELSE IterateRaise
    /\ UNCHANGED <<source, limit, full_lightcurves, full_spectra,
                   summary_csv, lc_csv, spec_csv, result>>
    /\ UNCHANGED record_vars

Snids(rows) == [i \in 1 .. Len(rows) |-> rows[i].snid]

\* the dataset is exhausted; df_summary.to_csv(output_csv) (lines 264-273)
SaveSummary ==
    /\ pc = "loop"
    /\ pos = Len(dataset)
    /\ summary_csv' = [written |-> TRUE, snids |-> Snids(summary_data)]
    /\ pc' = "save_lightcurves"
    /\ UNCHANGED <<source, limit, full_lightcurves, full_spectra, pos, count,
                   summary_data, lightcurve_data, spectrum_data,
                   lc_csv, spec_csv, result>>
    /\ UNCHANGED record_vars

\* `if full_lightcurves and lightcurve_data:` (lines 276-281)
SaveLightcurvesWhenAsked ==
    /\ pc = "save_lightcurves"
    /\ lc_csv' = IF full_lightcurves /\ ~lightcurve_data.none
                 THEN [written |-> TRUE, snids |-> Snids(lightcurve_data.rows)]
                 ELSE lc_csv
    /\ pc' = "save_spectra"
    /\ UNCHANGED <<source, limit, full_lightcurves, full_spectra, pos, count,
                   summary_data, lightcurve_data, spectrum_data,
                   summary_csv, spec_csv, result>>
    /\ UNCHANGED record_vars
SaveLightcurves ==
    /\ pc = "save_lightcurves"
    /\ lc_csv' = IF full_lightcurves /\ ~lightcurve_data.none /\ lightcurve_data.rows # <<>>
                 THEN [written |-> TRUE, snids |-> Snids(lightcurve_data.rows)]
                 ELSE lc_csv
    /\ pc' = "save_spectra"
    /\ UNCHANGED <<source, limit, full_lightcurves, full_spectra, pos, count,
                   summary_data, lightcurve_data, spectrum_data,
                   summary_csv, spec_csv, result>>
    /\ UNCHANGED record_vars

\* `if full_spectra and spectrum_data:` and `return df_summary` (lines 284-291)
SaveSpectra ==
    /\ pc = "save_spectra"
    /\ spec_csv' = IF full_spectra /\ ~spectrum_data.none /\ spectrum_data.rows # <<>>
                   THEN [written |-> TRUE, snids |-> Snids(spectrum_data.rows)]
                   ELSE spec_csv
    /\ result' = [returned |-> TRUE, rows |-> summary_data]
    /\ pc' = "done"
    /\ UNCHANGED <<source, limit, full_lightcurves, full_spectra, pos, count,
                   summary_data, lightcurve_data, spectrum_data,
                   summary_csv, lc_csv>>
    /\ UNCHANGED record_vars

Next == Iterate \/ SaveSummary \/ SaveLightcurves \/ SaveSpectra

Spec == Init /\ [][Next]_vars

(***************************************************************************)
(* Properties of the batch driver, checked under Spec.                     *)
(***************************************************************************)
Decodes(rec) == parse_tfrecord(rec).ok
NothingWritten == ~summary_csv.written /\ ~lc_csv.written /\ ~spec_csv.written

\* C1: with a positive cap N on a source of M > N records, process_tfrecord
\* never pulls more than N records, and when it returns it has pulled exactly
\* the first N and the returned table and the summary file hold N rows, row i
\* carrying the id of the i-th source record.
C1_CapYieldsFirstN ==
    (limit # <<>> /\ limit[1] > 0 /\ Len(source) > limit[1]) =>
        /\ pos <= limit[1]
        /\ pc = "done" =>
              /\ pos = limit[1]
              /\ Len(result.rows) = limit[1]
              /\ Len(summary_csv.snids) = limit[1]
              /\ \A i \in 1 .. limit[1] :
                    /\ result.rows[i].snid = source[i].id
                    /\ summary_csv.snids[i] = source[i].id

\* a run capped at 1 on a two-record source has returned one row; the
\* second record, which would not decode, was never pulled
C1_Witness ==
    /\ pc = "done"
    /\ limit = <<1>>
    /\ Len(source) = 2
    /\ ~Decodes(source[2])
    /\ Len(result.rows) = 1
    /\ result.rows[1].snid = source[1].id

\* C2: when the k-th record fails to decode, process_tfrecord is left with
\* the failure: it takes no further step (no later record is pulled), it
\* returns nothing and none of the three output files is written, although
\* the k-1 rows reduced before are held in memory.
C2_FailureStopsBatch ==
    (pos > 0 /\ ~Decodes(dataset[pos])) =>
        /\ pc = "raised"
        /\ count = pos - 1
        /\ Len(summary_data) = pos - 1
        /\ NothingWritten
        /\ ~result.returned
        /\ ~ENABLED Next

\* the second record failed after the first was reduced, a third was waiting
C2_Witness ==
    /\ pc = "raised"
    /\ pos = 2
    /\ Len(dataset) = 3
    /\ Decodes(dataset[3])
    /\ Len(summary_data) = 1
    /\ full_lightcurves
    /\ Len(lightcurve_data.rows) = 1
    /\ NothingWritten

\* C3: in every state of the loop the summary list holds one row per record
\* reduced so far, in source order; a requested projection list has the same
\* length and the same snid at each position; a projection list that was not
\* requested stays None.
SameSnids(lst) ==
    /\ ~lst.none
    /\ Len(lst.rows) = Len(summary_data)
    /\ \A i \in 1 .. Len(summary_data) : lst.rows[i].snid = summary_data[i].snid

C3_ListsInStep ==
    /\ Len(summary_data) = count
    /\ pc # "raised" => count = pos
    /\ \A i \in 1 .. Len(summary_data) : summary_data[i].snid = source[i].id
    /\ IF full_lightcurves THEN SameSnids(lightcurve_data) ELSE lightcurve_data = None
    /\ IF full_spectra THEN SameSnids(spectrum_data) ELSE spectrum_data = None

\* two records reduced, light curves requested and spectra not
C3_Witness ==
    /\ pc = "loop"
    /\ pos = 2
    /\ Len(summary_data) = 2
    /\ summary_data[1].snid # summary_data[2].snid
    /\ full_lightcurves
    /\ ~full_spectra
    /\ Len(lightcurve_data.rows) = 2
    /\ spectrum_data = None

(***************************************************************************)
(* Properties of the decoder, checked under SpecFn.                        *)
(***************************************************************************)
PayloadVals == raw_record.image_raw.vals
ExpectedBytes == NUM_WAVELENGTH_BINS * NUM_MJD_BINS * 2 * 8

\* C4: a payload whose byte length is not W*T*2*8 ends parse_tfrecord in an
\* error: no flux or flux_err grid comes back, whether the payload is too
\* short or too long.
C4_WrongLengthFails ==
    (fpc # "raw" /\ ByteLen(raw_record.image_raw) # ExpectedBytes) =>
        /\ fpc = "error"
        /\ ~data.ok
        /\ data.flux = NoGrid
        /\ data.flux_err = NoGrid
        /\ info = NoRow

\* a record with every feature and a payload one float64 short was refused
C4_Witness ==
    /\ fpc = "error"
    /\ raw_record.has = FeatureNames
    /\ ByteLen(raw_record.image_raw) = ExpectedBytes - 8
    /\ \E k \in 1 .. Len(PayloadVals) : PayloadVals[k] # 0

\* C5: for a payload of exactly W*T*2 values, flux[w,t] is the value at flat
\* position (w*T + t)*2 and flux_err[w,t] the value at (w*T + t)*2 + 1, and
\* writing the two grids back in that layout gives the payload again.
C5_Layout ==
    fpc \in {"parsed", "extracted"} =>
        /\ \A w \in WIdx, t \in TIdx :
              /\ data.flux[w][t] = PayloadVals[(w * NUM_MJD_BINS + t) * 2 + 0 + 1]
              /\ data.flux_err[w][t] = PayloadVals[(w * NUM_MJD_BINS + t) * 2 + 1 + 1]
        /\ Encode(data.flux, data.flux_err) = PayloadVals

\* a payload whose only 2 sits at the flux slot of the last cell but one of
\* the second row, among flux_err values of 1
C5_Witness ==
    /\ fpc = "parsed"
    /\ PayloadVals[(1 * NUM_MJD_BINS + (NUM_MJD_BINS - 2)) * 2 + 1] = 2
    /\ data.flux[1][NUM_MJD_BINS - 2] = 2
    /\ \A w \in WIdx, t \in TIdx :
          /\ data.flux_err[w][t] = 1
          /\ <<w, t>> # <<1, NUM_MJD_BINS - 2>> => data.flux[w][t] = 0

(***************************************************************************)
(* Properties of the feature reducer, checked under SpecFn.  The           *)
(* quantities a property speaks of are written out here from the decoded   *)
(* grids, with sums over index sets.                                       *)
(***************************************************************************)
Extracted == fpc = "extracted"

\* sum over w of flux[w,t]
LcAt(t) == SumOver([w \in WIdx |-> data.flux[w][t]], WIdx)
LcVec == [t \in TIdx |-> LcAt(t)]
LcMax == CHOOSE m \in {LcAt(t) : t \in TIdx} : \A t \in TIdx : LcAt(t) <= m
\* first argmax of the light curve
LcPeak == CHOOSE p \in TIdx : LcAt(p) = LcMax /\ \A t \in 0 .. (p - 1) : LcAt(t) < LcMax
\* time bins whose light curve exceeds half the maximum (2*lc > max)
AboveHalf == {t \in TIdx : 2 * LcAt(t) > LcMax}
\* time[i] - time[j] on the evenly spaced axis
TimeDiff(i, j) ==
    IF NUM_MJD_BINS = 1 THEN RatInt(0)
    ELSE Rat((i - j) * (MJD_RANGE_END - MJD_RANGE_START), NUM_MJD_BINS - 1)

AllZero(grid) == \A w \in WIdx, t \in TIdx : grid[w][t] = 0
PositiveCells(grid) == {c \in Cells : grid[c[1]][c[2]] > 0}
NonZeroCells(grid) == {c \in Cells : grid[c[1]][c[2]] # 0}

\* C6: flux_before_peak + flux_after_peak equals the sum of the light curve;
\* the peak bin (first argmax) is counted in flux_after_peak, and
\* flux_before_peak is 0 when the peak is the first bin.
C6_PeakPartition ==
    Extracted =>
        /\ info.lc_peak_mjd_idx = LcPeak
        /\ info.flux_before_peak + info.flux_after_peak = SumOver(LcVec, TIdx)
        /\ info.flux_before_peak = SumOver(LcVec, 0 .. (LcPeak - 1))
        /\ info.flux_after_peak = SumOver(LcVec, LcPeak .. (NUM_MJD_BINS - 1))
        /\ LcPeak = 0 => info.flux_before_peak = 0

\* a light curve that rises to its peak in the second bin
C6_Witness ==
    /\ Extracted
    /\ info.lc_peak_mjd_idx = 1
    /\ info.flux_before_peak = 1
    /\ info.flux_after_peak = 2

Undefined3 ==
    /\ IsNaN(info.rise_time_days)
    /\ IsNaN(info.decline_time_days)
    /\ IsNaN(info.duration_days)
Zero3 ==
    /\ info.rise_time_days = RatInt(0)
    /\ info.decline_time_days = RatInt(0)
    /\ info.duration_days = RatInt(0)

\* the half-max rule of C7: the three times are undefined exactly when no bin
\* exceeds half the maximum, and are the axis differences otherwise
HalfMaxRule ==
    /\ (AboveHalf = {}) <=> IsNaN(info.rise_time_days)
    /\ (AboveHalf = {}) <=> IsNaN(info.decline_time_days)
    /\ (AboveHalf = {}) <=> IsNaN(info.duration_days)
    /\ AboveHalf # {} =>
          /\ info.rise_time_days = TimeDiff(LcPeak, SetMin(AboveHalf))
          /\ info.decline_time_days = TimeDiff(SetMax(AboveHalf), LcPeak)
          /\ info.duration_days = TimeDiff(SetMax(AboveHalf), SetMin(AboveHalf))

\* C7 as stated: the half-max rule, and rise = decline = duration = 0 for
\* every grid with a single positive entry.
C7_AsStated ==
    Extracted =>
        /\ HalfMaxRule
        /\ Cardinality(PositiveCells(data.flux)) = 1 => Zero3

\* C7, amended: the half-max rule, and rise = decline = duration = 0 for
\* every grid whose only nonzero entry is positive (one positive entry, all
\* others zero).
C7_HalfMaxTimes ==
    Extracted =>
        /\ HalfMaxRule
        /\ (/\ Cardinality(PositiveCells(data.flux)) = 1
            /\ Cardinality(NonZeroCells(data.flux)) = 1) => Zero3

\* a light curve whose peak lies strictly inside the half-max window, so
\* that rise and decline are both positive
C7_Witness ==
    /\ Extracted
    /\ AboveHalf # {}
    /\ SetMin(AboveHalf) < LcPeak
    /\ LcPeak < SetMax(AboveHalf)
    /\ RatLess(RatInt(0), info.rise_time_days)
    /\ RatLess(RatInt(0), info.decline_time_days)

\* C8: all-zero flux gives coverage_fraction = snr_mean = snr_median = 0 and
\* undefined rise, decline and duration, whatever flux_err is.
C8_ZeroFlux ==
    (Extracted /\ AllZero(data.flux)) =>
        /\ info.coverage_fraction = RatInt(0)
        /\ info.snr_mean = RatInt(0)
        /\ info.snr_median = RatInt(0)
        /\ Undefined3

\* all-zero flux reduced under a flux_err grid with entries 1 and 2
C8_Witness ==
    /\ Extracted
    /\ AllZero(data.flux)
    /\ \E c \in Cells : data.flux_err[c[1]][c[2]] = 2
    /\ \E c \in Cells : data.flux_err[c[1]][c[2]] = 1
    /\ Undefined3

\* C9: all-zero flux_err gives an snr grid of zeros whatever the flux is, so
\* snr_mean, snr_median, snr_max and snr_peak are 0.
C9_ZeroErr ==
    (Extracted /\ AllZero(data.flux_err)) =>
        /\ \A w \in WIdx, t \in TIdx : snr_of(data.flux, data.flux_err)[w][t] = RatInt(0)
        /\ info.snr_mean = RatInt(0)
        /\ info.snr_median = RatInt(0)
        /\ info.snr_max = RatInt(0)
        /\ info.snr_peak = RatInt(0)

\* nonzero flux, one entry positive and one negative, under all-zero flux_err
C9_Witness ==
    /\ Extracted
    /\ AllZero(data.flux_err)
    /\ \E c \in Cells : data.flux[c[1]][c[2]] > 0
    /\ \E c \in Cells : data.flux[c[1]][c[2]] < 0
    /\ info.snr_max = RatInt(0)

\* flux/flux_err where flux_err > 0, else 0
SnrAt(c) ==
    IF data.flux_err[c[1]][c[2]] > 0
    THEN Rat(data.flux[c[1]][c[2]], data.flux_err[c[1]][c[2]])
    ELSE RatInt(0)
\* the cells whose snr is strictly positive
SnrPositiveCells == {c \in Cells : data.flux_err[c[1]][c[2]] > 0 /\ data.flux[c[1]][c[2]] > 0}

RECURSIVE SnrValues(_)
SnrValues(S) ==
    IF S = {} THEN <<>>
    ELSE LET c == CHOOSE x \in S : TRUE IN <<SnrAt(c)>> \o SnrValues(S \ {c})

\* C10: snr_mean and snr_median are the mean and the median of the strictly
\* positive snr entries, and are 0 (not undefined) when there is none;
\* snr_max is the maximum over every cell of the snr grid.
C10_SnrStatistics ==
    Extracted =>
        /\ SnrPositiveCells # {} =>
              /\ info.snr_mean =
                    RatDivInt(RatSumSeq(SnrValues(SnrPositiveCells)),
                              Cardinality(SnrPositiveCells))
              /\ info.snr_median = RatMedian(SnrValues(SnrPositiveCells))
        /\ SnrPositiveCells = {} =>
              /\ info.snr_mean = RatInt(0)
              /\ info.snr_median = RatInt(0)
        /\ \A c \in Cells : RatLeq(SnrAt(c), info.snr_max)
        /\ \E c \in Cells : SnrAt(c) = info.snr_max

\* an snr grid with several positive entries, a negative entry and a
\* zero-filled entry where the flux is not zero
C10_Witness ==
    /\ Extracted
    /\ Cardinality(SnrPositiveCells) > 1
    /\ \E c \in Cells : RatLess(SnrAt(c), RatInt(0))
    /\ \E c \in Cells : data.flux_err[c[1]][c[2]] = 0 /\ data.flux[c[1]][c[2]] # 0
    /\ info.snr_mean = RatInt(1)
    /\ info.snr_max = RatInt(1)

(***************************************************************************)
(* Colour.  The axis of the program puts wavelengths in both bands, so     *)
(* lines 143-146 are reached only with another axis; the colour rule is    *)
(* therefore also applied to the decoded grid under axes that leave a band *)
(* empty.                                                                  *)
(***************************************************************************)
\* wavelengths of the axis inside [lo, hi]
InBand(axis, lo, hi) ==
    {w \in WIdx : axis[w].n >= lo * axis[w].d /\ axis[w].n <= hi * axis[w].d}
\* sum over t of light_curve[t] * (sum over the band of flux[w,t])
BandTotal(band) ==
    SumOver([t \in TIdx |-> LcAt(t) * SumOver([w \in WIdx |-> data.flux[w][t]], band)], TIdx)

\* one wavelength for every bin: below both bands, blue only, between the
\* bands, red only, or a red first bin followed by blue ones
OneColourAxes ==
    {[w \in WIdx |-> RatInt(v)] : v \in {2000, 4000, 5500, 7000}}
    \cup {[w \in WIdx |-> IF w = 0 THEN RatInt(7000) ELSE RatInt(4000)]}
TrialAxes == {get_wavelength_array} \cup OneColourAxes

\* the colour rule of C11 for the triple c computed under `axis`
ColourRule(c, axis) ==
    LET blue == InBand(axis, 3000, 5000)
        red == InBand(axis, 6000, 10000)
    IN  IF blue # {} /\ red # {}
        THEN /\ c.blue_flux = RatInt(BandTotal(blue))
             /\ c.red_flux = RatInt(BandTotal(red))
             /\ BandTotal(red) > 0 =>
                   c.color_ratio = Rat(BandTotal(blue), BandTotal(red))
             /\ BandTotal(red) <= 0 => IsNaN(c.color_ratio)
        ELSE IsNaN(c.blue_flux) /\ IsNaN(c.red_flux) /\ IsNaN(c.color_ratio)

\* C11: with a wavelength in each band, blue_flux and red_flux are defined
\* and color_ratio is blue_flux/red_flux when red_flux > 0 and undefined when
\* red_flux <= 0; with a band that holds no wavelength all three are
\* undefined.
C11_ColourRatio ==
    Extracted =>
        /\ ColourRule([blue_flux |-> info.blue_flux, red_flux |-> info.red_flux,
                       color_ratio |-> info.color_ratio], get_wavelength_array)
        /\ \A axis \in TrialAxes :
              ColourRule(color_of(data.flux, LcVec, axis), axis)

\* a record whose colour ratio is 1/2, and whose ratio is undefined on an
\* axis without a red wavelength
C11_Witness ==
    /\ Extracted
    /\ InBand(get_wavelength_array, 3000, 5000) # {}
    /\ InBand(get_wavelength_array, 6000, 10000) # {}
    /\ RatLess(RatInt(0), info.blue_flux)
    /\ RatLess(RatInt(0), info.red_flux)
    /\ info.color_ratio = Rat(1, 2)
    /\ \E axis \in OneColourAxes :
          /\ InBand(axis, 6000, 10000) = {}
          /\ IsNaN(color_of(data.flux, LcVec, axis).color_ratio)

(***************************************************************************)
(* Coverage.                                                               *)
(***************************************************************************)
TimesWithData == {t \in TIdx : \E w \in WIdx : data.flux[w][t] > 0}
WavelengthsWithData == {w \in WIdx : \E t \in TIdx : data.flux[w][t] > 0}
InUnitInterval(x) == ~IsNaN(x) /\ RatLeq(RatInt(0), x) /\ RatLeq(x, RatInt(1))

\* C12: coverage_fraction, temporal_coverage_fraction and
\* spectral_coverage_fraction are the numbers of grid entries, time bins and
\* wavelength bins with some flux > 0 divided by W*T, T and W, and each lies
\* in [0, 1].
C12_CoverageFractions ==
    Extracted =>
        /\ info.coverage_fraction =
              Rat(Cardinality(PositiveCells(data.flux)), NUM_WAVELENGTH_BINS * NUM_MJD_BINS)
        /\ info.temporal_coverage_fraction = Rat(Cardinality(TimesWithData), NUM_MJD_BINS)
        /\ info.spectral_coverage_fraction =
              Rat(Cardinality(WavelengthsWithData), NUM_WAVELENGTH_BINS)
        /\ InUnitInterval(info.coverage_fraction)
        /\ InUnitInterval(info.temporal_coverage_fraction)
        /\ InUnitInterval(info.spectral_coverage_fraction)

\* two positive entries in one wavelength row: the three fractions differ
\* and lie strictly between 0 and 1
C12_Witness ==
    /\ Extracted
    /\ Cardinality(PositiveCells(data.flux)) = 2
    /\ Cardinality(TimesWithData) = 2
    /\ Cardinality(WavelengthsWithData) = 1
    /\ info.coverage_fraction = Rat(2, NUM_WAVELENGTH_BINS * NUM_MJD_BINS)
    /\ info.temporal_coverage_fraction = Rat(2, NUM_MJD_BINS)
    /\ info.spectral_coverage_fraction = Rat(1, NUM_WAVELENGTH_BINS)

(***************************************************************************)
(* Degenerate grids.                                                       *)
(***************************************************************************)
\* the keys of the feature row (std_flux is held as std_flux_sq)
SchemaFields ==
    {"snid", "label", "label_name", "redshift", "redshift_err",
     "total_flux", "max_flux", "mean_flux", "median_flux", "std_flux_sq",
     "peak_flux_wavelength_idx", "peak_flux_mjd_idx",
     "peak_flux_wavelength", "peak_flux_mjd",
     "lc_max", "lc_mean", "lc_peak_mjd_idx", "lc_peak_mjd",
     "flux_before_peak", "flux_after_peak",
     "rise_time_days", "decline_time_days", "duration_days",
     "spectrum_max", "spectrum_mean",
     "spectrum_peak_wavelength_idx", "spectrum_peak_wavelength",
     "blue_flux", "red_flux", "color_ratio",
     "snr_mean", "snr_median", "snr_max", "snr_peak",
     "num_nonzero_bins", "coverage_fraction",
     "num_epochs_with_data", "temporal_coverage_fraction",
     "num_wavelengths_with_data", "spectral_coverage_fraction"}

Defined3 ==
    /\ ~IsNaN(info.rise_time_days)
    /\ ~IsNaN(info.decline_time_days)
    /\ ~IsNaN(info.duration_days)

\* C13: every decoded record is reduced to a row that holds every field of
\* the schema, and a degenerate grid shows only in the values: an empty
\* half-max window gives undefined rise, decline and duration, a grid with no
\* positive snr gives snr_mean = snr_median = 0, a red total that is not
\* positive or an empty colour band gives an undefined colour ratio, a peak
\* in the first bin gives flux_before_peak = 0; the snr and coverage fields
\* are never undefined.
C13_DegenerateRows ==
    /\ fpc = "parsed" => DOMAIN extract_summary_statistics(data) = SchemaFields
    /\ Extracted =>
          /\ DOMAIN info = SchemaFields
          /\ IF AboveHalf = {} THEN Undefined3 ELSE Defined3
          /\ SnrPositiveCells = {} =>
                info.snr_mean = RatInt(0) /\ info.snr_median = RatInt(0)
          /\ ~IsNaN(info.snr_mean) /\ ~IsNaN(info.snr_median)
          /\ ~IsNaN(info.snr_max) /\ ~IsNaN(info.snr_peak)
          /\ AllZero(data.flux_err) => info.snr_max = RatInt(0)
          /\ IsNaN(info.color_ratio) <=>
                \/ InBand(get_wavelength_array, 3000, 5000) = {}
                \/ InBand(get_wavelength_array, 6000, 10000) = {}
                \/ BandTotal(InBand(get_wavelength_array, 6000, 10000)) <= 0
          /\ \A axis \in OneColourAxes :
                InBand(axis, 3000, 5000) = {} \/ InBand(axis, 6000, 10000) = {} =>
                    IsNaN(color_of(data.flux, LcVec, axis).color_ratio)
          /\ LcPeak = 0 => info.flux_before_peak = 0
          /\ ~IsNaN(info.coverage_fraction)
          /\ ~IsNaN(info.temporal_coverage_fraction)
          /\ ~IsNaN(info.spectral_coverage_fraction)

\* an all-negative flux grid under all-zero flux_err was reduced to a full row
C13_Witness ==
    /\ Extracted
    /\ \A w \in WIdx, t \in TIdx : data.flux[w][t] < 0
    /\ AllZero(data.flux_err)
    /\ DOMAIN info = SchemaFields
    /\ Undefined3
    /\ info.snr_mean = RatInt(0)
    /\ info.coverage_fraction = RatInt(0)

(***************************************************************************)
(* C15.  The spectrum projection.  extract_spectrum slices the grid at the *)
(* two indices it computed and reduces the slice per wavelength bin; the   *)
(* slice the program's time axis gives has at most one bin at this size,   *)
(* where a mean, a sum and a root-mean-square cannot be told apart, so the *)
(* body is also applied to every slice 0 <= s < e <= NUM_MJD_BINS.         *)
(***************************************************************************)
Windows == {p \in (0 .. NUM_MJD_BINS) \X (0 .. NUM_MJD_BINS) : p[1] < p[2]}
\* sum over the window of flux[w,t], and of flux_err[w,t]^2
WindowFlux(w, s, e) == SumOver([t \in TIdx |-> data.flux[w][t]], s .. (e - 1))
WindowErrSq(w, s, e) ==
    SumOver([t \in TIdx |-> data.flux_err[w][t] * data.flux_err[w][t]], s .. (e - 1))
\* the row has one wavelength, flux and error per wavelength bin and the id
SpectrumShape(row) ==
    /\ row.snid = data.id
    /\ DOMAIN row.wavelength = WIdx
    /\ DOMAIN row.flux = WIdx
    /\ DOMAIN row.flux_err_sq = WIdx
    /\ row.wavelength = get_wavelength_array

\* C15 as stated: the flux is the mean over the window and the error is the
\* quadrature sum over the window, error^2 = sum of flux_err[w,t]^2
C15_AsStated ==
    Extracted =>
        /\ SpectrumShape(spec_dict)
        /\ \A p \in Windows : \A w \in WIdx :
              LET row == spectrum_over(data, p[1], p[2])
              IN /\ row.flux[w] = Rat(WindowFlux(w, p[1], p[2]), p[2] - p[1])
                 /\ row.flux_err_sq[w] = RatInt(WindowErrSq(w, p[1], p[2]))

\* C15: extract_spectrum returns one (wavelength, flux, error) triple per
\* wavelength bin tagged with the record id; the flux is the mean of
\* flux[w,t] over the window [start, end) and the error is the ROOT MEAN
\* SQUARE of flux_err[w,t] over the window, error^2 = (sum of
\* flux_err[w,t]^2) / (end - start), which is the quadrature sum only for
\* a one-bin window; an empty window gives nan for both.
C15_SpectrumRms ==
    Extracted =>
        /\ SpectrumShape(spec_dict)
        /\ \A p \in Windows : \A w \in WIdx :
              LET row == spectrum_over(data, p[1], p[2])
              IN /\ row.flux[w] = Rat(WindowFlux(w, p[1], p[2]), p[2] - p[1])
                 /\ row.flux_err_sq[w] = Rat(WindowErrSq(w, p[1], p[2]), p[2] - p[1])
        /\ \A w \in WIdx :
              IF peak_start_idx < peak_end_idx
              THEN /\ spec_dict.flux[w] =
                        Rat(WindowFlux(w, peak_start_idx, peak_end_idx),
                            peak_end_idx - peak_start_idx)
                   /\ spec_dict.flux_err_sq[w] =
                        Rat(WindowErrSq(w, peak_start_idx, peak_end_idx),
                            peak_end_idx - peak_start_idx)
              ELSE IsNaN(spec_dict.flux[w]) /\ IsNaN(spec_dict.flux_err_sq[w])

\* a record with a nonzero error everywhere was projected: over a two-bin
\* slice the squared error is half the sum of squares
C15_Witness ==
    /\ Extracted
    /\ \A w \in WIdx, t \in TIdx : data.flux_err[w][t] > 0
    /\ \E w \in WIdx :
          /\ WindowErrSq(w, 0, 2) > 0
          /\ spectrum_over(data, 0, 2).flux_err_sq[w] = Rat(WindowErrSq(w, 0, 2), 2)
          /\ spectrum_over(data, 0, 2).flux_err_sq[w] # RatInt(WindowErrSq(w, 0, 2))
    /\ SpectrumShape(spec_dict)

(***************************************************************************)
(* C16.  The light-curve projection.                                       *)
(***************************************************************************)
\* sum over w of flux_err[w,t]^2, the number under the root of
\* light_curve_err[t]
LcErrSqAt(t) ==
    SumOver([w \in WIdx |-> data.flux_err[w][t] * data.flux_err[w][t]], WIdx)

\* C16: extract_lightcurve returns exactly T triples tagged with the record
\* id; triple t pairs the t-th time coordinate with light_curve[t] = sum over
\* w of flux[w,t] and light_curve_err[t] = sqrt(sum over w of
\* flux_err[w,t]^2), and its light curve equals, bin for bin, the light
\* curve the reducer derives from the same record.
C16_LightcurveProjection ==
    Extracted =>
        /\ lc_dict.snid = data.id
        /\ DOMAIN lc_dict.mjd = TIdx
        /\ DOMAIN lc_dict.flux = TIdx
        /\ DOMAIN lc_dict.flux_err_sq = TIdx
        /\ \A t \in TIdx :
              /\ lc_dict.mjd[t] = RatAdd(RatInt(MJD_RANGE_START), TimeDiff(t, 0))
              /\ lc_dict.flux[t] = LcAt(t)
              /\ lc_dict.flux_err_sq[t] = LcErrSqAt(t)
        /\ lc_dict.flux = light_curve_of(data.flux)
        /\ info.lc_max = lc_dict.flux[info.lc_peak_mjd_idx]
        /\ info.lc_peak_mjd = lc_dict.mjd[info.lc_peak_mjd_idx]
        /\ \A t \in TIdx : lc_dict.flux[t] <= info.lc_max

\* a record whose light curve differs from bin to bin, with errors that
\* differ along a row, was projected
C16_Witness ==
    /\ Extracted
    /\ lc_dict.snid = data.id
    /\ \E t, u \in TIdx : lc_dict.flux[t] # lc_dict.flux[u]
    /\ \E t \in TIdx : lc_dict.flux[t] < 0
    /\ \E t, u \in TIdx : lc_dict.flux_err_sq[t] # lc_dict.flux_err_sq[u]
    /\ \E t \in TIdx : lc_dict.flux_err_sq[t] > NUM_WAVELENGTH_BINS

C18_ZeroLimitNoCap ==
    /\ limit = <<0>> =>
          /\ dataset = source
          /\ pos <= Len(source)
          /\ pc \in {"save_lightcurves", "save_spectra", "done"} =>
                /\ pos = Len(source)
                /\ Len(summary_data) = Len(source)
                /\ Len(summary_csv.snids) = Len(source)
          /\ pc = "done" =>
                /\ Len(result.rows) = Len(source)
                /\ \A i \in 1 .. Len(source) : result.rows[i].snid = source[i].id
    /\ Len(dataset) < Len(source) => (limit # <<>> /\ limit[1] > 0)
    /\ (limit # <<>> /\ limit[1] > 0) => Len(dataset) = Min(limit[1], Len(source))

\* a run with limit 0 over three records has returned three rows
C18_Witness ==
    /\ limit = <<0>>
    /\ pc = "done"
    /\ Len(source) = MaxRecords
    /\ pos = MaxRecords
    /\ Len(result.rows) = MaxRecords
    /\ summary_csv.written

(***************************************************************************)
(* C19.  The empty source, and the order of the three writes.              *)
(***************************************************************************)
\* C19: process_tfrecord on an empty record source still writes the summary
\* table, with zero rows, and returns it, but writes no light-curve table
\* and no spectrum table even when they were requested; on a non-empty
\* source each requested projection table is written after the summary
\* table.
C19_EmptySourceAndOrder ==
    /\ (Len(source) = 0 /\ pc # "loop") =>
          /\ summary_csv.written
          /\ summary_csv.snids = <<>>
    /\ Len(source) = 0 =>
          /\ ~lc_csv.written
          /\ ~spec_csv.written
          /\ pc # "raised"
          /\ pc = "done" => (result.returned /\ result.rows = <<>>)
    /\ lc_csv.written => (summary_csv.written /\ full_lightcurves)
    /\ spec_csv.written => (summary_csv.written /\ full_spectra)
    /\ (summary_csv.written /\ pc = "save_lightcurves") =>
          (~lc_csv.written /\ ~spec_csv.written)
    /\ (Len(dataset) > 0 /\ pc \in {"save_spectra", "done"}) =>
          (lc_csv.written <=> full_lightcurves)
    /\ (Len(dataset) > 0 /\ pc = "done") =>
          /\ spec_csv.written <=> full_spectra
          /\ lc_csv.written => lc_csv.snids = summary_csv.snids
          /\ spec_csv.written => spec_csv.snids = summary_csv.snids

\* a run over an empty source that asked for both projections has returned
C19_Witness ==
    /\ pc = "done"
    /\ source = <<>>
    /\ full_lightcurves
    /\ full_spectra
    /\ summary_csv.written
    /\ result.returned
    /\ result.rows = <<>>
    /\ ~lc_csv.written
    /\ ~spec_csv.written

====
